---- MODULE Spec2Model ----
(***************************************************************************)
(* whisper-preview transcriber: one connection's dispatch loop             *)
(* (rust/transcriber/src/main.rs, handle_connection) driving one Session   *)
(* (rust/transcriber/src/session.rs) and its Vad (rust/shared-vad).        *)
(*                                                                         *)
(* The recognition engine, the Opus decoder and the transport are          *)
(* collaborators: their results (segments, decode success, send success)   *)
(* are inputs drawn from small sets.  PCM samples carry no value here: the *)
(* buffer is the window [lo, hi) of the decoded stream it holds.           *)
(*                                                                         *)
(* Timestamps are i64 centiseconds and sample counts are usize (64 bit).   *)
(* TLC's integers have 32 bits, so the i64 value h * 2^59 + l is written   *)
(* h * BigCs + l: BigCs stands for 2^59, 32 * BigCs for 2^64 and           *)
(* 16 * BigCs - 1 for i64::MAX.  160 = 32 * 5, hence a multiplication by   *)
(* CS_SAMPLES wraps at multiples of 2^59 in the code and at multiples of   *)
(* BigCs here; every small quantity of the model stays far below BigCs.    *)
(***************************************************************************)
EXTENDS Integers, Sequences, FiniteSets, TLC

\* ------------------------------------------------------------ constants
FRAME_SIZE_CS == 6
SAMPLE_RATE == 16000
CS_SAMPLES == SAMPLE_RATE \div 100
FRAME_SIZE_SAMPLES == FRAME_SIZE_CS * CS_SAMPLES
MAX_PROMPT_TOKENS == 224
MIN_FRAMES == 3
MIN_SAMPLES == MIN_FRAMES * FRAME_SIZE_SAMPLES
EARSHOT_FRAME == 256

\* ------------------------------------------------------------ bounds
MaxMessages == 6      \* frames the client sends on one connection
MaxFrames == 4        \* audio frames among them that decode
MaxAdvances == 2      \* Advance messages among them
MaxOther == 1         \* Ping and Pong frames among them
MaxSegments == 3      \* segments the engine hears in one pass
MaxEndOfStream == 1   \* EndOfStream messages among them
BigCs == 2048         \* stands for 2^59 (see the header)

UsizeModulus == 32 * BigCs     \* 2^64
I64Max == 16 * BigCs - 1       \* 2^63 - 1

NoneVal == [type |-> "None"]

Min(a, b) == IF a <= b THEN a ELSE b
Max(a, b) == IF a >= b THEN a ELSE b
Last(s) == s[Len(s)]

\* ------------------------------------------------------------ Vad (shared-vad)
\* probabilities and leftovers are kept by their lengths.
VadNew == [probabilities |-> 0, leftovers |-> 0]

VadReset(vad) == [probabilities |-> 0, leftovers |-> 0]

RECURSIVE VadChunks(_, _, _)
\* the while loop of consume: [pos, probabilities] after it
VadChunks(pos, n, probs) ==
    IF pos + EARSHOT_FRAME <= n
    THEN VadChunks(pos + EARSHOT_FRAME, n, probs + 1)
    ELSE [pos |-> pos, probabilities |-> probs]

\* Vad::consume on a slice of n samples
VadConsume(vad, n) ==
    IF vad.leftovers # 0 /\ n < EARSHOT_FRAME - vad.leftovers
    THEN [vad EXCEPT !.leftovers = @ + n]
    ELSE LET need == IF vad.leftovers # 0 THEN EARSHOT_FRAME - vad.leftovers ELSE 0
             p0 == IF vad.leftovers # 0 THEN vad.probabilities + 1 ELSE vad.probabilities
             after == VadChunks(need, n, p0)
         IN  [probabilities |-> after.probabilities,
              leftovers |-> IF after.pos < n THEN n - after.pos ELSE 0]

\* ------------------------------------------------------------ the Vad, sample by sample
\* The Session above keeps its Vad by counts. Here the same code is modelled
\* with the samples themselves: a chunk is the sequence of its 256 samples, the
\* detector is known by the number of chunks it heard since Detector::default(),
\* and a probability is the term predict_i16 made of them.
Predict(detector, chunk) ==
    [probability |-> [heard |-> detector, chunk |-> chunk],
     detector |-> detector + 1]

RingNew == [detector |-> 0, probabilities |-> << >>, leftovers |-> << >>]

RingReset(ring) == [detector |-> 0, probabilities |-> << >>, leftovers |-> << >>]

\* self.probabilities.push(self.detector.predict_i16(chunk))
PushProbability(ring, chunk) ==
    LET p == Predict(ring.detector, chunk)
    IN  [ring EXCEPT !.detector = p.detector,
                     !.probabilities = Append(@, p.probability)]

RECURSIVE RingChunks(_, _, _)
\* the while loop of consume from pos on, and the tail that becomes leftovers
RingChunks(pos, samples, ring) ==
    IF pos + EARSHOT_FRAME <= Len(samples)
    THEN RingChunks(pos + EARSHOT_FRAME, samples,
                    PushProbability(ring, SubSeq(samples, pos + 1, pos + EARSHOT_FRAME)))
    ELSE IF pos < Len(samples)
    THEN [ring EXCEPT !.leftovers = @ \o SubSeq(samples, pos + 1, Len(samples))]
    ELSE ring

\* faulty variant: a call that brings exactly the missing samples still waits
RingConsume_StillWaits(ring, samples) ==
    IF ring.leftovers # << >>
    THEN LET need == EARSHOT_FRAME - Len(ring.leftovers)
         IN  IF Len(samples) <= need
             THEN [ring EXCEPT !.leftovers = @ \o samples]
             ELSE RingChunks(need, samples,
                      [PushProbability(ring, ring.leftovers \o SubSeq(samples, 1, need))
                           EXCEPT !.leftovers = << >>])
    ELSE RingChunks(0, samples, ring)

\* faulty variant: the chunk that completes the leftovers has them at its end
RingConsume_LeftoversLast(ring, samples) ==
    IF ring.leftovers # << >>
    THEN LET need == EARSHOT_FRAME - Len(ring.leftovers)
         IN  IF Len(samples) < need
             THEN [ring EXCEPT !.leftovers = @ \o samples]
             ELSE RingChunks(need, samples,
                      [PushProbability(ring, SubSeq(samples, 1, need) \o ring.leftovers)
                           EXCEPT !.leftovers = << >>])
    ELSE RingChunks(0, samples, ring)

\* Vad::consume
RingConsume(ring, samples) ==
    IF ring.leftovers # << >>
    THEN LET need == EARSHOT_FRAME - Len(ring.leftovers)
         IN  IF Len(samples) < need
             THEN [ring EXCEPT !.leftovers = @ \o samples]
             ELSE RingChunks(need, samples,
                      [PushProbability(ring, ring.leftovers \o SubSeq(samples, 1, need))
                           EXCEPT !.leftovers = << >>])
    ELSE RingChunks(0, samples, ring)


\* ------------------------------------------------------------ Session
BufLen(s) == s.accumulated_audio.hi - s.accumulated_audio.lo

SessionNew ==
    [accumulated_audio |-> [lo |-> 0, hi |-> 0],
     vad |-> VadNew,
     prompt_tokens |-> << >>,
     advance_cs |-> 0,
     transcribed_up_to_cs |-> 0,
     advanced_since |-> FALSE]

\* decode_and_append_opus; decoded is the sample count the decoder returns,
\* -1 for a decoder error
DecodeAndAppendOpus(s, decoded) ==
    IF decoded # FRAME_SIZE_SAMPLES
    THEN [result |-> "err", session |-> s]
    ELSE [result |-> "ok",
          session |-> [s EXCEPT !.accumulated_audio.hi = @ + FRAME_SIZE_SAMPLES,
                                !.vad = VadConsume(@, FRAME_SIZE_SAMPLES)]]

\* (x as usize) * (CS_SAMPLES as usize): the true product, and the product the
\* machine keeps; a build with overflow checks panics when they differ
AsUsize(x) == x % UsizeModulus
CsToSamples(cs) ==
    LET product == AsUsize(cs) * CS_SAMPLES
    IN  [overflow |-> product >= UsizeModulus, value |-> product % UsizeModulus]

\* faulty variant: the head of the context segment is kept, not its tail
PromptTokensFrom_Head(context) ==
    IF context = NoneVal THEN << >>
    ELSE LET n == Len(context.tokens)
         IN  [i \in 1..Min(n, MAX_PROMPT_TOKENS) |-> context.tokens[i].id]

\* ids of the trailing MAX_PROMPT_TOKENS tokens of the context segment
PromptTokensFrom(context) ==
    IF context = NoneVal THEN << >>
    ELSE LET n == Len(context.tokens)
             from == IF n > MAX_PROMPT_TOKENS THEN n - MAX_PROMPT_TOKENS ELSE 0
         IN  [i \in 1..(n - from) |-> context.tokens[from + i].id]

\* the sample count advance drains from the front of the buffer
DropSamples(timestamp, advance_cs) == CsToSamples(timestamp - advance_cs)

\* what the drain does to the buffer window
DrainFront(audio, n) == [audio EXCEPT !.lo = @ + n]

\* faulty variant: advance_cs moved by the drop in the wrong direction
Advance_Backwards(s, timestamp, context, overflow_checks) ==
    IF timestamp <= s.advance_cs
    THEN [result |-> "ok", session |-> s]
    ELSE LET drop == DropSamples(timestamp, s.advance_cs)
             audio == DrainFront(s.accumulated_audio, drop.value)
         IN  IF drop.overflow /\ overflow_checks
             THEN [result |-> "panic", session |-> s]
             ELSE IF drop.value > BufLen(s)
             THEN [result |-> "err", session |-> s]
             ELSE [result |-> "ok",
                   session |->
                     [s EXCEPT !.prompt_tokens = PromptTokensFrom(context),
                               !.accumulated_audio = audio,
                               !.advance_cs = @ - (timestamp - @),
                               !.advanced_since = TRUE,
                               !.vad = VadConsume(VadReset(@), audio.hi - audio.lo)]]

\* faulty variant: the next pass is not forced
Advance_NoForce(s, timestamp, context, overflow_checks) ==
    IF timestamp <= s.advance_cs
    THEN [result |-> "ok", session |-> s]
    ELSE LET drop == DropSamples(timestamp, s.advance_cs)
             audio == DrainFront(s.accumulated_audio, drop.value)
         IN  IF drop.overflow /\ overflow_checks
             THEN [result |-> "panic", session |-> s]
             ELSE IF drop.value > BufLen(s)
             THEN [result |-> "err", session |-> s]
             ELSE [result |-> "ok",
                   session |->
                     [s EXCEPT !.prompt_tokens = PromptTokensFrom(context),
                               !.accumulated_audio = audio,
                               !.advance_cs = timestamp,
                               !.vad = VadConsume(VadReset(@), audio.hi - audio.lo)]]

\* faulty variant: an Advance to the current advance_cs is carried out again
Advance_StrictGuard(s, timestamp, context, overflow_checks) ==
    IF timestamp < s.advance_cs
    THEN [result |-> "ok", session |-> s]
    ELSE LET drop == DropSamples(timestamp, s.advance_cs)
             audio == DrainFront(s.accumulated_audio, drop.value)
         IN  IF drop.overflow /\ overflow_checks
             THEN [result |-> "panic", session |-> s]
             ELSE IF drop.value > BufLen(s)
             THEN [result |-> "err", session |-> s]
             ELSE [result |-> "ok",
                   session |->
                     [s EXCEPT !.prompt_tokens = PromptTokensFrom(context),
                               !.accumulated_audio = audio,
                               !.advance_cs = timestamp,
                               !.advanced_since = TRUE,
                               !.vad = VadConsume(VadReset(@), audio.hi - audio.lo)]]

\* Session::advance; overflow_checks tells a build that panics on overflow
Advance(s, timestamp, context, overflow_checks) ==
    IF timestamp <= s.advance_cs
    THEN [result |-> "ok", session |-> s]
    ELSE LET drop == DropSamples(timestamp, s.advance_cs)
             audio == DrainFront(s.accumulated_audio, drop.value)
         IN  IF drop.overflow /\ overflow_checks
             THEN [result |-> "panic", session |-> s]
             ELSE IF drop.value > BufLen(s)
             THEN [result |-> "err", session |-> s]
             ELSE [result |-> "ok",
                   session |->
                     [s EXCEPT !.prompt_tokens = PromptTokensFrom(context),
                               !.accumulated_audio = audio,
                               !.advance_cs = timestamp,
                               !.advanced_since = TRUE,
                               !.vad = VadConsume(VadReset(@), audio.hi - audio.lo)]]

\* buffer length in cs, as both passes compute it
LenCs(samples) == (samples * 100) \div SAMPLE_RATE

CurrentEndCs(s) == s.advance_cs + LenCs(BufLen(s))

\* the tokens of an engine segment the pass keeps, shifted by base
KeptTokens(tokens, buffer_len_cs, base) ==
    LET Trusted(t) == ~(t.t0 >= buffer_len_cs)
        kept == SelectSeq(tokens, Trusted)
    IN  [j \in 1..Len(kept) |->
            [id |-> kept[j].id,
             start_cs |-> kept[j].t0 + base,
             end_cs |-> kept[j].t1 + base]]

\* the Segment record a pass builds from engine segment seg
BuildSegment(seg, buffer_len_cs, base, end_cap) ==
    LET start_time == seg.t0 + base
        end_time == Min(seg.t1 + base, end_cap)
    IN  [start_cs |-> start_time,
         end_cs |-> end_time,
         tokens |-> KeptTokens(seg.tokens, buffer_len_cs, base),
         fallback_segmentation |-> (end_time - start_time) % 100 = 0]

\* whether segment i of n_segments goes to complete
GoesToComplete(i, n_segments, is_final) == i < n_segments \/ is_final

RECURSIVE TranscribeLoop(_, _, _, _, _)
\* the segment loop of transcribe from index i on; out is [complete, incomplete]
TranscribeLoop(i, segs, s, is_final, out) ==
    IF i > Len(segs) THEN out
    ELSE LET segment == BuildSegment(segs[i], LenCs(BufLen(s)), s.advance_cs,
                                     CurrentEndCs(s))
         IN  IF segment.tokens = << >>
             THEN TranscribeLoop(i + 1, segs, s, is_final, out)
             ELSE IF GoesToComplete(i, Len(segs), is_final)
             THEN TranscribeLoop(i + 1, segs, s, is_final,
                      [out EXCEPT !.complete = Append(@, segment)])
             ELSE TranscribeLoop(i + 1, segs, s, is_final,
                      [out EXCEPT !.incomplete = segment])

\* faulty variant: no minimum length
NothingToTranscribe_NoMinimum(s, is_final) ==
    \/ BufLen(s) = 0
    \/ /\ ~is_final
       /\ ~s.advanced_since
       /\ CurrentEndCs(s) = s.transcribed_up_to_cs

\* faulty variant: the minimum length holds back previews only
NothingToTranscribe_PreviewMinimum(s, is_final) ==
    /\ ~is_final
    /\ \/ BufLen(s) < MIN_SAMPLES
       \/ ~s.advanced_since /\ CurrentEndCs(s) = s.transcribed_up_to_cs

\* faulty variant: an advance since the last pass is not looked at
NothingToTranscribe_IgnoresAdvance(s, is_final) ==
    \/ BufLen(s) < MIN_SAMPLES
    \/ /\ ~is_final
       /\ CurrentEndCs(s) = s.transcribed_up_to_cs

\* the guard that makes transcribe return Ok(None) without running the engine
NothingToTranscribe(s, is_final) ==
    \/ BufLen(s) < MIN_SAMPLES
    \/ /\ ~is_final
       /\ ~s.advanced_since
       /\ CurrentEndCs(s) = s.transcribed_up_to_cs

\* faulty variant: the end of the buffer taken relative to the buffer
AfterPass_BufferRelative(s) ==
    [s EXCEPT !.transcribed_up_to_cs = LenCs(BufLen(s)),
              !.advanced_since = FALSE]

\* faulty variant: the pass moves the origin to the end of what it transcribed
AfterPass_Advances(s) ==
    [s EXCEPT !.transcribed_up_to_cs = CurrentEndCs(s),
              !.advanced_since = FALSE,
              !.advance_cs = CurrentEndCs(s),
              !.accumulated_audio = [lo |-> @.hi, hi |-> @.hi]]

\* the session after the engine call of a main pass returned
AfterPass(s) ==
    [s EXCEPT !.transcribed_up_to_cs = CurrentEndCs(s),
              !.advanced_since = FALSE]

\* x * y as i32 computes it, for 0 <= x < 2^31 and 0 <= y < 2^15: the product
\* modulo 2^32 read as a signed number, and whether the true product is another
\* (a build with overflow checks panics then). The product is taken in halves
\* of 16 bits.
I32Mul(x, y) ==
    LET half == 65536
        low_product == (x % half) * y
        high_sum == (x \div half) * y + low_product \div half
        high == high_sum % half
        low == low_product % half
    IN  [overflow |-> high_sum >= half \div 2,
         value |-> IF high >= half \div 2 THEN (high - half) * half + low
                   ELSE high * half + low]

\* a / b on i32 for b > 0: the quotient is rounded towards zero
I32Div(a, b) == IF a >= 0 THEN a \div b ELSE (a + b - 1) \div b

\* the audio_ctx a pass with dynamic_audio_ctx sets for `samples` samples
\* (session.rs:184-190 and 346-351)
AudioCtx(samples, overflow_checks) ==
    LET product == I32Mul(samples, 1500)
        needed == I32Div(product.value, SAMPLE_RATE * 30)
        aligned == I32Div(needed + 63, 64) * 64
    IN  IF product.overflow /\ overflow_checks
        THEN [result |-> "panic", audio_ctx |-> 0]
        ELSE [result |-> "ok", audio_ctx |-> Max(aligned, 384)]

\* What the engine returns for a pass over `samples` samples, by the shape
\* eng.shape of its answer: shape.nseg segments that split the audio evenly, one
\* token each, and with shape.ghost one more segment that starts where the
\* heard ones end (the engine pads its window and may decode past the audio).
\* shape.late is how many cs past the end of the audio the engine puts the end
\* of what it heard: its timestamps are estimates.
EngineSegments(shape, samples) ==
    LET L == LenCs(samples)
        n == shape.nseg
        End(i) == IF i = n THEN L + shape.late ELSE (i * L) \div n
        Seg(i) == [t0 |-> ((i - 1) * L) \div n,
                   t1 |-> End(i),
                   tokens |-> << [id |-> i, t0 |-> ((i - 1) * L) \div n,
                                  t1 |-> End(i)] >>]
        ghost == [t0 |-> L + shape.late, t1 |-> L + shape.late + 30,
                  tokens |-> << [id |-> 0, t0 |-> L + shape.late,
                                 t1 |-> L + shape.late + 30] >>]
        heard == [i \in 1..n |-> Seg(i)]
    IN  IF shape.ghost THEN Append(heard, ghost) ELSE heard

\* Session::transcribe. eng is what the engine does when it is called:
\* eng.fail is "none", "full" (create_state or full fails) or "token" (a token's
\* text cannot be read); eng.shape is the shape of its result
Transcribe(s, is_final, eng) ==
    IF NothingToTranscribe(s, is_final)
    THEN [result |-> "none", msg |-> NoneVal, session |-> s]
    ELSE IF eng.fail = "full"
    THEN [result |-> "err", msg |-> NoneVal, session |-> s]
    ELSE IF eng.fail = "token"
    THEN [result |-> "err", msg |-> NoneVal, session |-> AfterPass(s)]
    ELSE LET out == TranscribeLoop(1, EngineSegments(eng.shape, BufLen(s)), s, is_final,
                                   [complete |-> << >>, incomplete |-> NoneVal])
         IN  [result |-> "some",
              msg |-> [type |-> "Transcription",
                       complete |-> out.complete,
                       incomplete |-> out.incomplete,
                       advance_cs |-> s.advance_cs],
              session |-> AfterPass(s)]

\* the segments transcribe_from returns: every engine segment, kept tokens only
RetranscribedSegments(segs, buffer_len_cs, from_cs) ==
    [i \in 1..Len(segs) |->
        BuildSegment(segs[i], buffer_len_cs, from_cs, from_cs + buffer_len_cs)]

\* Session::transcribe_from. slice is the length of the slice given to the engine
TranscribeFrom(s, from_cs, is_final, eng, overflow_checks) ==
    LET offset == CsToSamples(from_cs - s.advance_cs)
        slice == BufLen(s) - offset.value
    IN  IF offset.overflow /\ overflow_checks
        THEN [result |-> "panic", segments |-> << >>, slice |-> 0]
        ELSE IF offset.value >= BufLen(s) \/ slice < MIN_SAMPLES
        THEN [result |-> "ok", segments |-> << >>, slice |-> 0]
        ELSE IF eng.fail # "none"
        THEN [result |-> "err", segments |-> << >>, slice |-> slice]
        ELSE [result |-> "ok",
              segments |-> RetranscribedSegments(EngineSegments(eng.shape, slice),
                                                 LenCs(slice), from_cs),
              slice |-> slice]

\* ------------------------------------------------------------ the connection
VARIABLES
    pc,               \* where handle_connection stands
    inbox,            \* how many inbound frames arrived and were not read yet
    clientLog,        \* the kinds of the frames read so far, in order
    sent,             \* the frames the server passed to ws_sender.send, in order
    session,          \* the Session
    finalized,        \* handle_connection's finalized
    no_preview,       \* Configure's no_preview.unwrap_or(false)
    two_stroke,       \* Configure's two_stroke.unwrap_or(false)
    pending,          \* the two-stroke step's locals between its drain and re-pass,
                      \* and the place in sent of its Transcription
    build,            \* whether the build panics on overflow, once that shows
    engine_shape,     \* the shape of the engine's answers, once it was called
    final_pass,       \* transcribe(true) was called
    passes,           \* main passes that returned a Transcription
    frames_accepted,  \* frames decode_and_append_opus appended
    final_tx_at,      \* the place in sent of the final pass's Transcription, or 0
    repass_failed,    \* the places in sent of the Transcriptions whose re-pass
                      \* ended in "two-stroke retranscription error"
    call,             \* the last call of a Session or Vad method made from
                      \* outside a connection, with its arguments and result
    vad,              \* a Vad of its own, with its samples (VadSpec)
    fed               \* the samples given to vad since Vad::new or the last reset

vars == <<pc, inbox, clientLog, sent, session, finalized, no_preview, two_stroke,
          pending, build, engine_shape, final_pass, passes, frames_accepted,
          final_tx_at, repass_failed, call, vad, fed>>

\* ------------------------------------------------------------ inputs
\* The client fixes a frame's content when it sends it, and the server learns it
\* when it reads the frame; the model draws the content at the read.

\* Option<String>: << >> is None
NoToken == << >>
Tokens == {NoToken, <<"secret">>}
ExpectedTokens == {NoToken, <<"secret">>, <<"other">>}

ContextSegment ==
    [start_cs |-> 0, end_cs |-> 3,
     tokens |-> << [id |-> 7, start_cs |-> 0, end_cs |-> 2],
                   [id |-> 8, start_cs |-> 2, end_cs |-> 3] >>,
     fallback_segmentation |-> FALSE]

\* what a client puts in Advance: a timestamp behind the timeline, inside a short
\* buffer (off a frame boundary), inside a buffer of four frames, and 2^59 cs
\* further than a frame boundary
AdvanceChoices ==
    {[timestamp_cs |-> 0, context |-> NoneVal],
     [timestamp_cs |-> 3, context |-> ContextSegment],
     [timestamp_cs |-> 20, context |-> NoneVal],
     [timestamp_cs |-> BigCs + 6, context |-> ContextSegment]}

\* the engine answers every pass of one connection with the same shape
EngineLateness == {0, 4}
EngineShapes == [nseg : 0..MaxSegments, ghost : BOOLEAN, late : EngineLateness]
Shapes(known) == IF known = NoneVal THEN EngineShapes ELSE {known}
EngineFailures == {"none", "full", "token"}

\* what call holds before any call
NoCall == [op |-> "none", result |-> "none"]

\* the builds the program may be, given what has shown so far
Builds(known) == IF known = "unknown" THEN {"checked", "unchecked"} ELSE {known}

Count(kind) == Cardinality({i \in DOMAIN clientLog : clientLog[i] = kind})

Terminated == pc \in {"closed", "bailed", "aborted", "panicked"}

\* one more frame from the client reaches the server
Arrive ==
    /\ ~Terminated
    /\ Len(clientLog) + inbox < MaxMessages
    /\ inbox' = inbox + 1
    /\ UNCHANGED <<pc, clientLog, sent, session, finalized, no_preview, two_stroke,
                   pending, build, engine_shape, final_pass, passes, frames_accepted,
          final_tx_at, repass_failed, call, vad, fed>>

\* ------------------------------------------------------------ handle_connection
ErrorMsg(message) == [type |-> "Error", message |-> message]
CloseFrame == [type |-> "Close"]
PongFrame == [type |-> "Pong"]

\* the frames bail! sends
BailFrames(message) == << ErrorMsg(message), CloseFrame >>

\* bail!: Error, Close, return Err
Bail(message) ==
    /\ sent' = sent \o BailFrames(message)
    /\ pc' = "bailed"

\* the server reads the next inbound frame, which is of the given kind
Reads(kind) ==
    /\ inbox > 0
    /\ inbox' = inbox - 1
    /\ clientLog' = Append(clientLog, kind)

\* the message of the bail! the first inbound frame other than Configure runs into
FirstMessageError(kind) ==
    CASE kind \in {"Advance", "EndOfStream"} -> "first message must be Configure"
      [] kind = "Unparseable" -> "failed to parse Configure"
      [] kind \in {"Binary", "BadBinary", "Ping", "Pong", "Close"} ->
             "must send Configure first"
      [] kind = "StreamError" -> "pre-configure error"
      [] kind = "StreamEnd" -> "connection closed before Configure"

NotConfigure == {"Advance", "EndOfStream", "Unparseable", "Binary", "BadBinary",
                 "Ping", "Pong", "Close", "StreamError", "StreamEnd"}

\* the token check: "" when the token passes
TokenError(expected_token, token) ==
    IF expected_token = NoToken \/ token = expected_token THEN ""
    ELSE IF token = NoToken THEN "missing API token"
    ELSE "wrong API token"

\* lines 221-252, a first frame that is no Configure
FirstNotConfigure ==
    /\ pc = "await_configure"
    /\ \E kind \in NotConfigure : Reads(kind) /\ Bail(FirstMessageError(kind))
    /\ UNCHANGED <<session, finalized, no_preview, two_stroke, pending, build,
                   engine_shape, final_pass, passes, frames_accepted,
                   final_tx_at, repass_failed, call, vad, fed>>

\* lines 221-279: Configure first, the token check, Session::new
\* (new_ok: whether Session::new returns Ok)
FirstConfigure ==
    /\ pc = "await_configure"
    /\ Reads("Configure")
    /\ \E token \in Tokens, np \in BOOLEAN, ts \in BOOLEAN,
          expected_token \in ExpectedTokens, new_ok \in BOOLEAN :
          IF TokenError(expected_token, token) # ""
          THEN /\ Bail(TokenError(expected_token, token))
               /\ UNCHANGED <<session, no_preview, two_stroke>>
          ELSE IF ~new_ok
          THEN /\ Bail("error creating session")
               /\ UNCHANGED <<session, no_preview, two_stroke>>
          ELSE /\ session' = SessionNew
               /\ no_preview' = np
               /\ two_stroke' = ts
               /\ pc' = "drain"
               /\ sent' = sent
    /\ UNCHANGED <<finalized, pending, build, engine_shape, final_pass, passes,
                   frames_accepted,
                   final_tx_at, repass_failed, call, vad, fed>>

\* the drain! macro is expanded twice: in the loop head and in the two-stroke step
Draining == pc \in {"drain", "redrain"}

\* faulty variant: a later Configure is read and ignored
DrainConfigure_Ignored ==
    /\ pc \in {"drain", "redrain"}
    /\ inbox > 0
    /\ inbox' = inbox - 1
    /\ clientLog' = Append(clientLog, "Configure")
    /\ UNCHANGED <<pc, sent, session, finalized, no_preview, two_stroke, pending,
                   build, engine_shape, final_pass, passes, frames_accepted,
                   final_tx_at, repass_failed, call, vad, fed>>

DrainConfigure ==
    /\ Draining
    /\ Reads("Configure")
    /\ Bail("Configure sent after session started")
    /\ UNCHANGED <<session, finalized, no_preview, two_stroke, pending, build,
                   engine_shape, final_pass, passes, frames_accepted,
                   final_tx_at, repass_failed, call, vad, fed>>

DrainAdvance ==
    /\ Draining
    /\ Count("Advance") < MaxAdvances
    /\ Reads("Advance")
    /\ \E msg \in AdvanceChoices, b \in Builds(build) :
         LET overflows == /\ msg.timestamp_cs > session.advance_cs
                          /\ DropSamples(msg.timestamp_cs, session.advance_cs).overflow
             r == Advance(session, msg.timestamp_cs, msg.context, b = "checked")
         IN  /\ build' = IF overflows THEN b ELSE build
             /\ session' = r.session
             /\ CASE r.result = "panic" -> pc' = "panicked" /\ sent' = sent
                  [] r.result = "err" -> Bail("advance failed")
                  [] r.result = "ok" -> UNCHANGED <<pc, sent>>
    /\ UNCHANGED <<finalized, no_preview, two_stroke, pending, engine_shape,
                   final_pass, passes, frames_accepted,
                   final_tx_at, repass_failed, call, vad, fed>>

DrainEndOfStream ==
    /\ Draining
    /\ Count("EndOfStream") < MaxEndOfStream
    /\ Reads("EndOfStream")
    /\ finalized' = TRUE
    /\ UNCHANGED <<pc, sent, session, no_preview, two_stroke, pending, build,
                   engine_shape, final_pass, passes, frames_accepted,
                   final_tx_at, repass_failed, call, vad, fed>>

DrainUnparseable ==
    /\ Draining
    /\ Reads("Unparseable")
    /\ Bail("cannot parse message")
    /\ UNCHANGED <<session, finalized, no_preview, two_stroke, pending, build,
                   engine_shape, final_pass, passes, frames_accepted,
                   final_tx_at, repass_failed, call, vad, fed>>

\* a binary frame that decodes to FRAME_SIZE_SAMPLES samples
DrainBinary ==
    /\ Draining
    /\ Count("Binary") < MaxFrames
    /\ Reads("Binary")
    /\ session' = DecodeAndAppendOpus(session, FRAME_SIZE_SAMPLES).session
    /\ frames_accepted' = frames_accepted + 1
    /\ UNCHANGED <<pc, sent, finalized, no_preview, two_stroke, pending, build,
                   engine_shape, final_pass, passes, final_tx_at, repass_failed, call, vad, fed>>

\* a binary frame the decoder rejects (-1) or decodes to another length
DrainBadBinary ==
    /\ Draining
    /\ Reads("BadBinary")
    /\ \E decoded \in {-1, FRAME_SIZE_SAMPLES \div 2} :
         LET r == DecodeAndAppendOpus(session, decoded)
         IN  /\ r.result = "err"
             /\ session' = r.session
             /\ Bail("error decoding Opus")
    /\ UNCHANGED <<finalized, no_preview, two_stroke, pending, build,
                   engine_shape, final_pass, passes, frames_accepted,
                   final_tx_at, repass_failed, call, vad, fed>>

\* send(...).await?: the frame is passed to the sink; when the send fails the
\* function returns the error
SendOrAbort(frame, send_ok, next_pc) ==
    /\ sent' = Append(sent, frame)
    /\ pc' = IF send_ok THEN next_pc ELSE "aborted"

DrainPing ==
    /\ Draining
    /\ Count("Ping") + Count("Pong") < MaxOther
    /\ Reads("Ping")
    /\ \E send_ok \in BOOLEAN : SendOrAbort(PongFrame, send_ok, pc)
    /\ UNCHANGED <<session, finalized, no_preview, two_stroke, pending, build,
                   engine_shape, final_pass, passes, frames_accepted,
                   final_tx_at, repass_failed, call, vad, fed>>

\* Message::Pong(_) | Message::Frame(_)
DrainPong ==
    /\ Draining
    /\ Count("Ping") + Count("Pong") < MaxOther
    /\ Reads("Pong")
    /\ UNCHANGED <<pc, sent, session, finalized, no_preview, two_stroke, pending,
                   build, engine_shape, final_pass, passes, frames_accepted,
                   final_tx_at, repass_failed, call, vad, fed>>

\* faulty variant: a Close frame ends the session without an Error
DrainClose_Silent ==
    /\ pc \in {"drain", "redrain"}
    /\ inbox > 0
    /\ inbox' = inbox - 1
    /\ clientLog' = Append(clientLog, "Close")
    /\ pc' = "bailed"
    /\ UNCHANGED <<sent, session, finalized, no_preview, two_stroke, pending,
                   build, engine_shape, final_pass, passes, frames_accepted,
                   final_tx_at, repass_failed, call, vad, fed>>

DrainClose ==
    /\ Draining
    /\ Reads("Close")
    /\ Bail("connection closed")
    /\ UNCHANGED <<session, finalized, no_preview, two_stroke, pending, build,
                   engine_shape, final_pass, passes, frames_accepted,
                   final_tx_at, repass_failed, call, vad, fed>>

DrainStreamError ==
    /\ Draining
    /\ Reads("StreamError")
    /\ Bail("websocket error")
    /\ UNCHANGED <<session, finalized, no_preview, two_stroke, pending, build,
                   engine_shape, final_pass, passes, frames_accepted,
                   final_tx_at, repass_failed, call, vad, fed>>

DrainStreamEnd ==
    /\ Draining
    /\ Reads("StreamEnd")
    /\ Bail("connection closed")
    /\ UNCHANGED <<session, finalized, no_preview, two_stroke, pending, build,
                   engine_shape, final_pass, passes, frames_accepted,
                   final_tx_at, repass_failed, call, vad, fed>>

\* None => break: nothing is pending
DrainBreak ==
    /\ Draining
    /\ inbox = 0
    /\ pc' = IF pc = "drain" THEN "pass" ELSE "repass"
    /\ UNCHANGED <<inbox, clientLog, sent, session, finalized, no_preview,
                   two_stroke, pending, build, engine_shape, final_pass, passes,
                   frames_accepted,
                   final_tx_at, repass_failed, call, vad, fed>>

\* where the loop goes after the match on transcribe's result (lines 394-398)
AfterIteration(is_finalized) == IF is_finalized THEN "finish" ELSE "peek"

\* faulty variant: no_preview is not looked at
HoldsBack_Never(is_no_preview, is_finalized) == FALSE

\* line 341: no_preview holds the pass back until EndOfStream
HoldsBack(is_no_preview, is_finalized) == is_no_preview /\ ~is_finalized

\* lines 341-344
NoPreviewWait ==
    /\ pc = "pass"
    /\ HoldsBack(no_preview, finalized)
    /\ pc' = "peek_np"
    /\ UNCHANGED <<inbox, clientLog, sent, session, finalized, no_preview,
                   two_stroke, pending, build, engine_shape, final_pass, passes,
                   frames_accepted,
                   final_tx_at, repass_failed, call, vad, fed>>

\* faulty variant: the two-stroke step asks for a third complete segment
WantsTwoStroke_ThreeSegments(msg, is_two_stroke, is_finalized) ==
    is_two_stroke /\ ~is_finalized /\ Len(msg.complete) > 2

\* lines 351-358: whether the two-stroke step follows the Transcription msg
WantsTwoStroke(msg, is_two_stroke, is_finalized) ==
    is_two_stroke /\ ~is_finalized /\ Len(msg.complete) >= 2

\* faulty variant: last taken one place too early
TwoStrokeLocals_SecondToLast(msg) ==
    LET last_index == Len(msg.complete)
    IN  [last |-> msg.complete[last_index - 1],
         retranscribe_from_cs |-> msg.complete[last_index - 1].end_cs,
         tx_advance_cs |-> msg.advance_cs]

\* lines 359-362: what the two-stroke step takes from the Transcription
TwoStrokeLocals(msg) ==
    LET last_index == Len(msg.complete)
    IN  [last |-> msg.complete[last_index],
         retranscribe_from_cs |-> msg.complete[last_index - 1].end_cs,
         tx_advance_cs |-> msg.advance_cs]

\* whether a call of transcribe reaches the engine
CallsEngine(s, is_final) == ~NothingToTranscribe(s, is_final)

\* lines 345-392: the main pass and the send of its Transcription
MainPass ==
    /\ pc = "pass"
    /\ ~HoldsBack(no_preview, finalized)
    /\ \E fail \in EngineFailures, shape \in Shapes(engine_shape),
          send_ok \in BOOLEAN :
         LET r == Transcribe(session, finalized, [fail |-> fail, shape |-> shape])
         IN  /\ session' = r.session
             /\ engine_shape' = IF CallsEngine(session, finalized) THEN shape
                                ELSE engine_shape
             /\ final_pass' = (final_pass \/ finalized)
             /\ passes' = IF r.result = "some" THEN passes + 1 ELSE passes
             /\ final_tx_at' = IF r.result = "some" /\ finalized
                               THEN Len(sent) + 1 ELSE final_tx_at
             /\ CASE r.result = "err" ->
                       Bail("Transcription error") /\ pending' = pending
                  [] r.result = "none" ->
                       /\ pc' = AfterIteration(finalized)
                       /\ UNCHANGED <<sent, pending>>
                  [] r.result = "some" ->
                       IF WantsTwoStroke(r.msg, two_stroke, finalized)
                       THEN /\ SendOrAbort(r.msg, send_ok, "redrain")
                            /\ pending' = IF send_ok
                                          THEN [locals |-> TwoStrokeLocals(r.msg),
                                                tx_at |-> Len(sent) + 1]
                                          ELSE pending
                       ELSE /\ SendOrAbort(r.msg, send_ok, AfterIteration(finalized))
                            /\ pending' = pending
    /\ UNCHANGED <<inbox, clientLog, finalized, no_preview, two_stroke, build,
                   frames_accepted, repass_failed, call, vad, fed>>

\* lines 371-378; exact_match and n_matching_tokens compare token texts, which
\* the model does not carry
AdvanceSuggestion(locals, segments) ==
    [type |-> "AdvanceSuggestion",
     advance_cs |-> locals.tx_advance_cs,
     timestamp_cs |-> locals.last.end_cs,
     segments |-> segments,
     original_last_segment |-> locals.last]

\* lines 367-385: the re-pass and the send of its AdvanceSuggestion
Repass ==
    /\ pc = "repass"
    /\ LET from_cs == pending.locals.retranscribe_from_cs
           overflows == CsToSamples(from_cs - session.advance_cs).overflow
       IN  \E fail \in EngineFailures, send_ok \in BOOLEAN, b \in Builds(build) :
             LET r == TranscribeFrom(session, from_cs, finalized,
                                     [fail |-> fail, shape |-> engine_shape],
                                     b = "checked")
             IN  /\ build' = IF overflows THEN b ELSE build
                 /\ CASE r.result = "panic" ->
                           /\ pc' = "panicked"
                           /\ UNCHANGED <<sent, repass_failed>>
                      [] r.result = "err" ->
                           /\ pc' = AfterIteration(finalized)
                           /\ sent' = sent
                           /\ repass_failed' = repass_failed \cup {pending.tx_at}
                      [] r.result = "ok" ->
                           /\ SendOrAbort(AdvanceSuggestion(pending.locals, r.segments),
                                          send_ok, AfterIteration(finalized))
                           /\ repass_failed' = repass_failed
    /\ pending' = NoneVal
    /\ UNCHANGED <<inbox, clientLog, session, finalized, no_preview, two_stroke,
                   engine_shape, final_pass, passes, frames_accepted, final_tx_at, call, vad, fed>>

\* lines 342 and 398: peek().await returns once a frame is buffered
Peek ==
    /\ pc \in {"peek", "peek_np"}
    /\ inbox > 0
    /\ pc' = "drain"
    /\ UNCHANGED <<inbox, clientLog, sent, session, finalized, no_preview,
                   two_stroke, pending, build, engine_shape, final_pass, passes,
                   frames_accepted,
                   final_tx_at, repass_failed, call, vad, fed>>

\* line 401: the Close after the loop
Finish ==
    /\ pc = "finish"
    /\ \E send_ok \in BOOLEAN : SendOrAbort(CloseFrame, send_ok, "closed")
    /\ UNCHANGED <<inbox, clientLog, session, finalized, no_preview, two_stroke,
                   pending, build, engine_shape, final_pass, passes, frames_accepted,
                   final_tx_at, repass_failed, call, vad, fed>>

Init ==
    /\ pc = "await_configure"
    /\ inbox = 0
    /\ clientLog = << >>
    /\ sent = << >>
    /\ session = SessionNew
    /\ finalized = FALSE
    /\ no_preview = FALSE
    /\ two_stroke = FALSE
    /\ pending = NoneVal
    /\ build = "unknown"
    /\ engine_shape = NoneVal
    /\ final_pass = FALSE
    /\ passes = 0
    /\ frames_accepted = 0
    /\ final_tx_at = 0
    /\ repass_failed = {}
    /\ call = NoCall
    /\ vad = RingNew
    /\ fed = 0

Next ==
    \/ Arrive
    \/ FirstNotConfigure
    \/ FirstConfigure
    \/ DrainConfigure
    \/ DrainAdvance
    \/ DrainEndOfStream
    \/ DrainUnparseable
    \/ DrainBinary
    \/ DrainBadBinary
    \/ DrainPing
    \/ DrainPong
    \/ DrainClose
    \/ DrainStreamError
    \/ DrainStreamEnd
    \/ DrainBreak
    \/ NoPreviewWait
    \/ MainPass
    \/ Repass
    \/ Peek
    \/ Finish

Spec == Init /\ [][Next]_vars

\* The connection's task is polled whenever it can go on: every step of
\* handle_connection that is possible is taken in the end. Nothing makes the
\* client send (Arrive).
ServerNext ==
    \/ FirstNotConfigure
    \/ FirstConfigure
    \/ DrainConfigure
    \/ DrainAdvance
    \/ DrainEndOfStream
    \/ DrainUnparseable
    \/ DrainBinary
    \/ DrainBadBinary
    \/ DrainPing
    \/ DrainPong
    \/ DrainClose
    \/ DrainStreamError
    \/ DrainStreamEnd
    \/ DrainBreak
    \/ NoPreviewWait
    \/ MainPass
    \/ Repass
    \/ Peek
    \/ Finish

FairSpec == Spec /\ WF_vars(ServerNext)

\* ------------------------------------------------------------ the Session alone
\* The methods of one Session called in any order with any arguments, as a
\* caller other than handle_connection may; the connection's variables rest.

\* a context segment longer than the prompt may be
LongContext ==
    [start_cs |-> 0, end_cs |-> 3,
     tokens |-> [i \in 1..(MAX_PROMPT_TOKENS + 1) |->
                    [id |-> 100 + i, start_cs |-> 0, end_cs |-> 3]],
     fallback_segmentation |-> FALSE]

SessionContexts == {NoneVal, ContextSegment, LongContext}
SessionTimestamps == {0, 3, 6, 20, BigCs + 6}
SessionFromCs == {0, 3, 6, 12}

\* what the engine may do in one call: answer in some shape, or fail; when it
\* is not called it does nothing
SilentShape == [nseg |-> 0, ghost |-> FALSE, late |-> 0]
EngineAnswers(called) ==
    IF called
    THEN {[fail |-> "none", shape |-> shape] : shape \in EngineShapes}
         \cup {[fail |-> fail, shape |-> SilentShape] : fail \in {"full", "token"}}
    ELSE {[fail |-> "none", shape |-> SilentShape]}

\* whether transcribe_from gets as far as the engine
ReachesEngineFrom(s, from_cs) ==
    LET offset == CsToSamples(from_cs - s.advance_cs)
    IN  offset.value < BufLen(s) /\ BufLen(s) - offset.value >= MIN_SAMPLES

\* the builds that differ on a call: one when nothing overflows in it
BuildsFor(overflows) == IF overflows THEN Builds(build) ELSE {build}

\* a panic unwinds through the caller: the Session is not used again
SessionUsable == call.result # "panic"

ConnectionRests ==
    UNCHANGED <<pc, inbox, clientLog, sent, finalized, no_preview, two_stroke,
                pending, engine_shape, final_pass, passes, frames_accepted,
                final_tx_at, repass_failed>>

SessionAppend ==
    /\ SessionUsable
    /\ session.accumulated_audio.hi < MaxFrames * FRAME_SIZE_SAMPLES
    /\ \E decoded \in {FRAME_SIZE_SAMPLES, -1, FRAME_SIZE_SAMPLES \div 2} :
         LET r == DecodeAndAppendOpus(session, decoded)
         IN  /\ session' = r.session
             /\ call' = [op |-> "decode_and_append_opus", result |-> r.result]
    /\ build' = build
    /\ ConnectionRests
    /\ UNCHANGED <<vad, fed>>

SessionAdvance ==
    /\ SessionUsable
    /\ \E timestamp \in SessionTimestamps, context \in SessionContexts :
         LET overflows == /\ timestamp > session.advance_cs
                          /\ DropSamples(timestamp, session.advance_cs).overflow
         IN  \E b \in BuildsFor(overflows) :
         LET r == Advance(session, timestamp, context, b = "checked")
         IN  /\ build' = b
             /\ session' = r.session
             /\ call' = [op |-> "advance", timestamp_cs |-> timestamp,
                         context |-> context, result |-> r.result]
    /\ ConnectionRests
    /\ UNCHANGED <<vad, fed>>

SessionTranscribe ==
    /\ SessionUsable
    /\ \E is_final \in BOOLEAN :
         \E eng \in EngineAnswers(CallsEngine(session, is_final)) :
         LET r == Transcribe(session, is_final, eng)
         IN  /\ session' = r.session
             /\ call' = [op |-> "transcribe", is_final |-> is_final,
                         result |-> r.result, msg |-> r.msg]
    /\ build' = build
    /\ ConnectionRests
    /\ UNCHANGED <<vad, fed>>

SessionTranscribeFrom ==
    /\ SessionUsable
    /\ \E from_cs \in SessionFromCs, is_final \in BOOLEAN :
         LET overflows == CsToSamples(from_cs - session.advance_cs).overflow
         IN  \E b \in BuildsFor(overflows),
                eng \in EngineAnswers(ReachesEngineFrom(session, from_cs)) :
         LET r == TranscribeFrom(session, from_cs, is_final, eng, b = "checked")
         IN  /\ build' = b
             /\ call' = [op |-> "transcribe_from", from_cs |-> from_cs,
                         is_final |-> is_final, result |-> r.result,
                         segments |-> r.segments, slice |-> r.slice]
    /\ session' = session
    /\ ConnectionRests
    /\ UNCHANGED <<vad, fed>>

SessionNext ==
    \/ SessionAppend
    \/ SessionAdvance
    \/ SessionTranscribe
    \/ SessionTranscribeFrom

SessionSpec == Init /\ [][SessionNext]_vars

\* ------------------------------------------------------------ a session never advanced
\* A Session with dynamic_audio_ctx whose client sends frame after frame and no
\* Advance: each frame arrives once the pass over the frames before it is
\* done, the audio is silent (the engine hears nothing), and a re-pass may be
\* asked for at any time. With dynamic_audio_ctx off a pass does not compute
\* audio_ctx and is as Transcribe and TranscribeFrom have it.
MaxLongFrames == 1500
LongFromCs == {0, 3}
Silence == [fail |-> "none", shape |-> SilentShape]

LongAppend ==
    /\ SessionUsable
    /\ BufLen(session) < MaxLongFrames * FRAME_SIZE_SAMPLES
    /\ NothingToTranscribe(session, FALSE)
    /\ session' = DecodeAndAppendOpus(session, FRAME_SIZE_SAMPLES).session
    /\ call' = [op |-> "decode_and_append_opus", result |-> "ok"]
    /\ build' = build
    /\ ConnectionRests
    /\ UNCHANGED <<vad, fed>>

\* transcribe(false) when it gets past its guards
LongTranscribe ==
    /\ SessionUsable
    /\ ~NothingToTranscribe(session, FALSE)
    /\ \E b \in BuildsFor(I32Mul(BufLen(session), 1500).overflow) :
         LET ctx == AudioCtx(BufLen(session), b = "checked")
             r == Transcribe(session, FALSE, Silence)
         IN  /\ build' = b
             /\ session' = IF ctx.result = "panic" THEN session ELSE r.session
             /\ call' = [op |-> "transcribe", samples |-> BufLen(session),
                         result |-> IF ctx.result = "panic" THEN "panic" ELSE r.result,
                         audio_ctx |-> ctx.audio_ctx]
    /\ ConnectionRests
    /\ UNCHANGED <<vad, fed>>

\* transcribe_from(from_cs, false) when it gets past its guards
LongTranscribeFrom ==
    /\ SessionUsable
    /\ \E from_cs \in LongFromCs :
         /\ ReachesEngineFrom(session, from_cs)
         /\ LET slice == TranscribeFrom(session, from_cs, FALSE, Silence, FALSE).slice
            IN  \E b \in BuildsFor(I32Mul(slice, 1500).overflow) :
                  LET ctx == AudioCtx(slice, b = "checked")
                  IN  /\ build' = b
                      /\ call' = [op |-> "transcribe_from", samples |-> slice,
                                  result |-> ctx.result,
                                  audio_ctx |-> ctx.audio_ctx]
    /\ session' = session
    /\ ConnectionRests
    /\ UNCHANGED <<vad, fed>>

LongNext ==
    \/ LongAppend
    \/ LongTranscribe
    \/ LongTranscribeFrom

LongSpec == Init /\ [][LongNext]_vars

\* ------------------------------------------------------------ the Vad alone
\* One Vad given samples in calls of any of these lengths, and reset at any
\* time. The samples are those of one signal in which every sample has a value
\* of its own, so that a sample which lands in another place shows.
MaxVadSamples == 700
VadCallLengths == {0, 1, 100, 255, 256, 257, 300}

SamplesFrom(position, n) == [i \in 1..n |-> (position + i) % 32768]

VadConsumes ==
    /\ \E n \in VadCallLengths :
         /\ fed + n <= MaxVadSamples
         /\ vad' = RingConsume(vad, SamplesFrom(fed, n))
         /\ fed' = fed + n
         /\ call' = [op |-> "consume", result |-> "ok", samples |-> n]
    /\ UNCHANGED <<session, build>>
    /\ ConnectionRests

VadResets ==
    /\ vad' = RingReset(vad)
    /\ fed' = 0
    /\ call' = [op |-> "reset", result |-> "ok"]
    /\ UNCHANGED <<session, build>>
    /\ ConnectionRests

VadNext ==
    \/ VadConsumes
    \/ VadResets

VadSpec == Init /\ [][VadNext]_vars

\* ------------------------------------------------------------ properties
TypesOf(frames) == [i \in DOMAIN frames |-> frames[i].type]
IsTranscription(i) == sent[i].type = "Transcription"
IsSuggestion(i) == sent[i].type = "AdvanceSuggestion"
Transcriptions == {i \in DOMAIN sent : IsTranscription(i)}

\* C1: once EndOfStream was read and the loop ends without a fatal error, a main
\* pass transcribe(true) has run before the server sends Close.
C1_FinalPassBeforeClose ==
    (finalized /\ pc \in {"finish", "closed"}) => final_pass

\* C2 as stated: the frame sent right before an AdvanceSuggestion is the
\* Transcription whose last complete segment is its original_last_segment.
C2_SuggestionRightAfterTranscription ==
    \A i \in DOMAIN sent :
        IsSuggestion(i) =>
            /\ i > 1
            /\ IsTranscription(i - 1)
            /\ sent[i - 1].complete # << >>
            /\ Last(sent[i - 1].complete) = sent[i].original_last_segment

\* C2 amended: every AdvanceSuggestion follows the Transcription whose last
\* complete segment is its original_last_segment, with nothing but Pong frames
\* (the answers to Pings the re-drain read) sent between the two.
C2_SuggestionFollowsItsTranscription ==
    \A i \in DOMAIN sent :
        IsSuggestion(i) =>
            \E j \in 1..(i - 1) :
                /\ IsTranscription(j)
                /\ sent[j].complete # << >>
                /\ Last(sent[j].complete) = sent[i].original_last_segment
                /\ sent[j].advance_cs = sent[i].advance_cs
                /\ \A k \in (j + 1)..(i - 1) : sent[k].type = "Pong"

\* a Pong stands between a Transcription and its AdvanceSuggestion
C2_PongBeforeSuggestion ==
    \E i \in DOMAIN sent :
        /\ IsSuggestion(i)
        /\ i > 2
        /\ sent[i - 1].type = "Pong"
        /\ IsTranscription(i - 2)

\* the client of scenario S1: Configure without no_preview and two_stroke,
\* three audio frames, EndOfStream, nothing else, and the loop ended with Close
ScenarioS1Done ==
    /\ pc = "closed"
    /\ inbox = 0
    /\ clientLog = <<"Configure", "Binary", "Binary", "Binary", "EndOfStream">>
    /\ ~no_preview
    /\ ~two_stroke

\* C3 as stated: in scenario S1 the server sends exactly one Transcription and
\* then Close.
C3_ExactlyOneTranscription ==
    ScenarioS1Done => TypesOf(sent) = <<"Transcription", "Close">>

\* C3 amended: in scenario S1 the server sends one or two Transcriptions and
\* then Close; the last one comes from the final pass and has no incomplete
\* segment, and one sent before it is the preview of a pass that ran before
\* EndOfStream was read.
C3_OneOrTwoTranscriptions ==
    ScenarioS1Done =>
        /\ TypesOf(sent) \in {<<"Transcription", "Close">>,
                              <<"Transcription", "Transcription", "Close">>}
        /\ final_tx_at = Len(sent) - 1
        /\ sent[final_tx_at].incomplete = NoneVal
        /\ passes = Len(sent) - 1

\* scenario S1 with a preview before the final Transcription
C3_PreviewThenFinal ==
    /\ ScenarioS1Done
    /\ TypesOf(sent) = <<"Transcription", "Transcription", "Close">>

\* the client sent Configure, then at least three audio frames, then
\* EndOfStream, and nothing else
AudioThenEndOfStream ==
    /\ inbox = 0
    /\ Len(clientLog) >= MIN_FRAMES + 2
    /\ clientLog[1] = "Configure"
    /\ Last(clientLog) = "EndOfStream"
    /\ \A i \in 2..(Len(clientLog) - 1) : clientLog[i] = "Binary"

\* C4: with no_preview no Transcription is sent before EndOfStream is read;
\* after Configure, at least three audio frames and EndOfStream, exactly one
\* Transcription is sent, without an incomplete segment, and then Close.
C4_NoPreviewOneFinalTranscription ==
    /\ (no_preview /\ ~finalized) => Transcriptions = {}
    /\ (no_preview /\ pc = "closed" /\ AudioThenEndOfStream) =>
           /\ TypesOf(sent) = <<"Transcription", "Close">>
           /\ sent[1].incomplete = NoneVal

\* a no_preview session that ran the scenario to its Close
C4_NoPreviewScenarioDone ==
    /\ no_preview /\ pc = "closed" /\ AudioThenEndOfStream
    /\ Cardinality(Transcriptions) = 1

\* an AdvanceSuggestion follows frame i before any other Transcription
SuggestionFollows(i) ==
    \E j \in (i + 1)..Len(sent) :
        /\ IsSuggestion(j)
        /\ \A k \in (i + 1)..(j - 1) : ~IsTranscription(k)

\* C5 as stated: in a two_stroke session that ended with Close, every
\* Transcription with at least 2 complete segments is followed by an
\* AdvanceSuggestion.
C5_EveryLongTranscriptionGetsSuggestion ==
    (two_stroke /\ pc = "closed") =>
        \A i \in Transcriptions :
            Len(sent[i].complete) >= 2 => \E j \in (i + 1)..Len(sent) : IsSuggestion(j)

\* C5 amended: in a two_stroke session every Transcription of a pass that ran
\* before EndOfStream was read and has at least 2 complete segments is followed
\* by an AdvanceSuggestion before any other Transcription, unless its two-stroke
\* step is still running, ended the connection (a fatal error or a failed send
\* in the re-drain, a panic) or failed in the engine; the Transcription of the
\* final pass, one with fewer than 2 complete segments, and any Transcription
\* of a session without two_stroke are followed by none.
C5_PreviewGetsSuggestion ==
    \A i \in Transcriptions :
        IF two_stroke /\ i # final_tx_at /\ Len(sent[i].complete) >= 2
        THEN \/ SuggestionFollows(i)
             \/ i \in repass_failed
             \/ /\ \A k \in Transcriptions : k <= i
                /\ pc \in {"redrain", "repass", "bailed", "aborted", "panicked"}
        ELSE ~SuggestionFollows(i)

\* a preview with 2 complete segments got its AdvanceSuggestion and the loop
\* went on to wait for input
C5_SuggestionSent ==
    /\ two_stroke
    /\ pc = "peek"
    /\ \E i \in Transcriptions :
        /\ Len(sent[i].complete) >= 2
        /\ SuggestionFollows(i)

\* advance_cs of the Transcriptions sent, in the order sent
TxAdvanceSorted ==
    \A i, j \in Transcriptions : i <= j => sent[i].advance_cs <= sent[j].advance_cs

\* C6: no step decreases session.advance_cs, and the advance_cs fields of the
\* Transcriptions of one connection are non-decreasing in the order sent.
C6_AdvanceCsMonotone ==
    /\ [][session'.advance_cs >= session.advance_cs]_vars
    /\ []TxAdvanceSorted

\* two Transcriptions with different advance_cs were sent
C6_AdvancedBetweenTranscriptions ==
    \E i, j \in Transcriptions : sent[i].advance_cs < sent[j].advance_cs

\* C7 as stated (for timestamps below 2^59): once a pass has completed,
\* transcribed_up_to_cs >= advance_cs in every state.
C7_TranscribedCoversAdvance ==
    (passes > 0 /\ session.advance_cs < BigCs) =>
        session.transcribed_up_to_cs >= session.advance_cs

\* C7 amended: once a pass has completed, transcribed_up_to_cs >= advance_cs
\* in every state in which no effective Advance was processed since the last
\* completed pass (advanced_since is false).
C7_TranscribedCoversAdvanceAfterPass ==
    (passes > 0 /\ ~session.advanced_since) =>
        session.transcribed_up_to_cs >= session.advance_cs

\* a pass completed after an effective Advance
C7_PassAfterAdvance ==
    /\ passes > 0
    /\ ~session.advanced_since
    /\ session.advance_cs > 0

\* C8: the buffer holds whole centiseconds, and advance_cs plus the buffer's
\* length in cs is 6 times the number of frames accepted.
C8_TimelineAccounting ==
    /\ BufLen(session) % CS_SAMPLES = 0
    /\ session.advance_cs + BufLen(session) \div CS_SAMPLES
           = FRAME_SIZE_CS * frames_accepted

\* C9: no step decreases transcribed_up_to_cs, and a completed main pass sets
\* it to advance_cs + buffer_len * 100 / 16000.
C9_TranscribedUpToMonotone ==
    /\ [][session'.transcribed_up_to_cs >= session.transcribed_up_to_cs]_vars
    /\ [][passes' # passes =>
            session'.transcribed_up_to_cs
                = session.advance_cs
                  + ((session.accumulated_audio.hi - session.accumulated_audio.lo)
                     * 100) \div 16000]_vars

\* a second pass completed on a timeline that was advanced
C9_SecondPassAfterAdvance ==
    /\ passes >= 2
    /\ session.advance_cs > 0
    /\ session.transcribed_up_to_cs > MIN_FRAMES * FRAME_SIZE_CS

\* what C10 asks of every state
ConfigureOnlyFirst ==
    /\ (clientLog # << >> /\ clientLog[1] # "Configure") =>
           /\ pc = "bailed"
           /\ Len(clientLog) = 1
           /\ TypesOf(sent) = <<"Error", "Close">>
           /\ passes = 0 /\ ~final_pass
    /\ \A i \in 2..Len(clientLog) :
           clientLog[i] = "Configure" =>
               /\ pc = "bailed"
               /\ i = Len(clientLog)
               /\ Len(sent) >= 2
               /\ sent[Len(sent) - 1] = ErrorMsg("Configure sent after session started")
               /\ Last(sent) = CloseFrame

\* C10: a first frame other than Configure, and a Configure read after the
\* session started, make the server send Error and then Close, after which it
\* reads no frame, runs no pass and sends nothing.
C10_ConfigureOnlyFirst ==
    /\ []ConfigureOnlyFirst
    /\ [][pc = "bailed" =>
            UNCHANGED <<pc, inbox, clientLog, sent, session, passes, final_pass>>]_vars

\* a Configure was read after audio of a running session
C10_SecondConfigureRead ==
    /\ Len(clientLog) >= 3
    /\ clientLog[1] = "Configure"
    /\ Last(clientLog) = "Configure"
    /\ frames_accepted > 0

\* C14: an advance to the timestamp of the advance before it, with whatever
\* context, leaves the session as that advance left it and ends as it ended.
C14_AdvanceIdempotent ==
    [][(call.op = "advance" /\ call'.op = "advance"
          /\ call'.timestamp_cs = call.timestamp_cs)
       => (session' = session /\ call'.result = call.result)]_vars

\* an advance with a context was followed by an advance to the same timestamp
\* without one
C14_AdvancedTwice ==
    /\ call.op = "advance" /\ call.result = "ok"
    /\ call.context = NoneVal
    /\ call.timestamp_cs = session.advance_cs
    /\ session.prompt_tokens # << >>

\* the ids of the last min(n, 224) tokens of a context of n tokens
LastIds(context) ==
    IF context = NoneVal THEN << >>
    ELSE LET n == Len(context.tokens)
             k == Min(n, MAX_PROMPT_TOKENS)
         IN  [i \in 1..k |-> context.tokens[n - k + i].id]

\* the step is a successful advance past advance_cs
EffectiveAdvance ==
    /\ call'.op = "advance" /\ call'.result = "ok"
    /\ call'.timestamp_cs > session.advance_cs

\* C15: a successful advance past advance_cs sets prompt_tokens to the ids of
\* the last min(n, 224) tokens of its context (none without context); no other
\* call changes prompt_tokens, which never has more than 224 entries.
C15_PromptTokens ==
    /\ [](Len(session.prompt_tokens) <= MAX_PROMPT_TOKENS)
    /\ [][EffectiveAdvance => session'.prompt_tokens = LastIds(call'.context)]_vars
    /\ [][session'.prompt_tokens # session.prompt_tokens => EffectiveAdvance]_vars

\* an advance with a context of more than 224 tokens filled the prompt
C15_PromptCapped ==
    /\ call.op = "advance" /\ call.result = "ok"
    /\ call.context # NoneVal
    /\ Len(call.context.tokens) > MAX_PROMPT_TOKENS
    /\ Len(session.prompt_tokens) = MAX_PROMPT_TOKENS

Errors == {i \in DOMAIN sent : sent[i].type = "Error"}

\* the last two frames sent are an Error and Close
EndsWithErrorClose ==
    /\ Len(sent) >= 2
    /\ sent[Len(sent) - 1].type = "Error"
    /\ Last(sent) = CloseFrame

\* at most one Error, Close right after it, nothing after a Close
ErrorThenCloseOnly ==
    /\ Cardinality(Errors) <= 1
    /\ \A i \in Errors : i < Len(sent) /\ sent[i + 1] = CloseFrame
    /\ \A i \in DOMAIN sent : sent[i] = CloseFrame => i = Len(sent)

\* C11: at most one Error is sent, Close follows it at once and nothing follows
\* a Close; every fatal error ends in that pair: a frame that cannot be parsed
\* or decoded, a handler that ended on an error (none ends in a panic), and an
\* Advance out of range (none past the audio received is carried out).
C11_SingleErrorThenClose ==
    /\ ErrorThenCloseOnly
    /\ pc = "bailed" => EndsWithErrorClose
    /\ (clientLog # << >> /\ Last(clientLog) \in {"Unparseable", "BadBinary"}) =>
           pc = "bailed"
    /\ pc # "panicked"
    /\ session.advance_cs <= FRAME_SIZE_CS * frames_accepted

\* the frame read last ended the inbound stream: Close, its end, or an error
StreamEnded ==
    /\ Len(clientLog) >= 2
    /\ clientLog[1] = "Configure"
    /\ Last(clientLog) \in {"Close", "StreamEnd", "StreamError"}

\* C12 as stated: after the inbound stream of a running session yielded Close,
\* ended or failed, the server has sent no Error.
C12_TransportEndIsSilent ==
    StreamEnded => Errors = {}

\* C12 amended: after the inbound stream of a running session yielded Close,
\* ended or failed, the handler has ended and the last two frames it passed to
\* the sink are its only Error ("connection closed", or "websocket error" for a
\* failed stream) and Close.
C12_TransportEndSendsError ==
    StreamEnded =>
        /\ pc = "bailed"
        /\ EndsWithErrorClose
        /\ Cardinality(Errors) = 1
        /\ sent[Len(sent) - 1].message =
               (IF Last(clientLog) = "StreamError" THEN "websocket error"
                ELSE "connection closed")

\* a Close frame was read after audio
C12_CloseFrameRead ==
    /\ StreamEnded
    /\ Last(clientLog) = "Close"
    /\ frames_accepted > 0

\* C13: an Advance the dispatch loop reads is either refused, leaving the session as it
\* was and answered by Error and Close, or carried out without dropping more
\* samples than the buffer holds.
C13_AdvanceBeyondBufferRefused ==
    [][(Draining /\ clientLog' = Append(clientLog, "Advance")) =>
         \/ /\ session' = session
            /\ pc' = "bailed"
            /\ sent' = sent \o BailFrames("advance failed")
         \/ /\ pc' = pc /\ sent' = sent
            /\ (session'.advance_cs - session.advance_cs) * CS_SAMPLES
                   <= BufLen(session)]_vars

\* C16: a main pass over a buffer of fewer than 3 frames, final or not, sends
\* nothing and leaves the session as it was; a two-stroke re-pass over such a
\* buffer leaves the session as it was and sends no Transcription (its
\* AdvanceSuggestion carries no segment).
C16_ShortBufferNoTranscription ==
    /\ [][(pc = "pass" /\ pc' # "pass" /\ BufLen(session) < MIN_SAMPLES) =>
            (sent' = sent /\ session' = session /\ passes' = passes)]_vars
    /\ [][(pc = "repass" /\ pc' # "repass" /\ BufLen(session) < MIN_SAMPLES) =>
            /\ session' = session
            /\ \/ sent' = sent
               \/ /\ sent' = Append(sent, Last(sent'))
                  /\ Last(sent').type = "AdvanceSuggestion"
                  /\ Last(sent').segments = << >>]_vars

\* the final pass ran over a buffer an Advance had made short, and Close followed
C16_FinalPassOverShortBuffer ==
    /\ pc = "closed"
    /\ final_pass
    /\ final_tx_at = 0
    /\ frames_accepted >= MIN_FRAMES
    /\ session.advance_cs > 0
    /\ BufLen(session) < MIN_SAMPLES
    /\ BufLen(session) > 0

\* C17: a Transcription of the final pass has no incomplete segment, and a
\* Transcription of an earlier pass that kept any segment has its last kept
\* segment as incomplete, after all the complete ones.
C17_LastKeptSegmentIncomplete ==
    \A i \in Transcriptions :
        IF i = final_tx_at
        THEN sent[i].incomplete = NoneVal
        ELSE /\ sent[i].complete # << >> => sent[i].incomplete # NoneVal
             /\ sent[i].incomplete # NoneVal =>
                    \A k \in DOMAIN sent[i].complete :
                        sent[i].complete[k].start_cs <= sent[i].incomplete.start_cs

\* the segments a frame carries
SegmentsOf(frame) ==
    CASE frame.type = "Transcription" ->
             frame.complete \o (IF frame.incomplete = NoneVal THEN << >>
                                ELSE << frame.incomplete >>)
      [] frame.type = "AdvanceSuggestion" ->
             frame.segments \o << frame.original_last_segment >>
      [] OTHER -> << >>

\* the segments of the frames a step sends satisfy P(segment, session after it)
SentSegmentsSatisfy(P(_, _)) ==
    \A k \in (Len(sent) + 1)..Len(sent') :
        \A n \in DOMAIN SegmentsOf(sent'[k]) : P(SegmentsOf(sent'[k])[n], session')

InsideBuffer(segment, s) ==
    segment.start_cs >= s.advance_cs /\ segment.end_cs <= CurrentEndCs(s)

\* C18: every segment of a Transcription or AdvanceSuggestion has, when the
\* frame is sent, start_cs >= advance_cs and
\* end_cs <= advance_cs + buffer_len * 100 / 16000.
C18_SegmentsInsideBuffer ==
    [][SentSegmentsSatisfy(InsideBuffer)]_vars

StartBeforeEnd(segment, s) == segment.start_cs <= segment.end_cs

\* the segments the last call of transcribe or transcribe_from returned
ReturnedSegments ==
    CASE call.op = "transcribe" /\ call.result = "some" -> SegmentsOf(call.msg)
      [] call.op = "transcribe_from" /\ call.result = "ok" -> call.segments
      [] OTHER -> << >>

\* C19: every segment that transcribe puts in a Transcription and every segment
\* that transcribe_from returns for an AdvanceSuggestion has start_cs <= end_cs.
C19_SegmentStartBeforeEnd ==
    \A n \in DOMAIN ReturnedSegments : StartBeforeEnd(ReturnedSegments[n], session)

TokensInside(segment, s) ==
    /\ \A j \in DOMAIN segment.tokens :
        /\ segment.start_cs <= segment.tokens[j].start_cs
        /\ segment.tokens[j].start_cs <= segment.end_cs
        /\ segment.start_cs <= segment.tokens[j].end_cs
        /\ segment.tokens[j].end_cs <= segment.end_cs
    /\ \A j \in 1..(Len(segment.tokens) - 1) :
        segment.tokens[j].start_cs <= segment.tokens[j + 1].start_cs

\* C20: in every segment of a frame the server sends, every token's start_cs
\* and end_cs lie in [segment.start_cs, segment.end_cs] and the tokens'
\* start_cs do not decrease along the list.
C20_TokensInsideSegment ==
    [][SentSegmentsSatisfy(TokensInside)]_vars

\* the shift the last call put on its tokens, and the length in cs of the audio
\* it gave the engine
ReturnedBase ==
    IF call.op = "transcribe" THEN call.msg.advance_cs ELSE call.from_cs
TranscribedLenCs ==
    IF call.op = "transcribe" THEN LenCs(BufLen(session)) ELSE LenCs(call.slice)

\* C21: every segment that transcribe puts in a Transcription (complete or
\* incomplete) and every segment that transcribe_from returns for
\* AdvanceSuggestion.segments has at least one token, and each of its tokens
\* has a buffer-relative start t0 below the length in cs of the audio that was
\* transcribed.
C21_NoEmptySegment ==
    \A n \in DOMAIN ReturnedSegments :
        /\ ReturnedSegments[n].tokens # << >>
        /\ \A j \in DOMAIN ReturnedSegments[n].tokens :
               ReturnedSegments[n].tokens[j].start_cs - ReturnedBase
                   < TranscribedLenCs

\* C22: after consume calls that fed N samples in all since Vad::new or the
\* last reset, however the samples were split into calls (empty calls
\* included), the ring stores floor(N / 256) probabilities and holds N mod 256
\* leftover samples; so fewer than 256.
C22_RingCounts ==
    /\ Len(vad.probabilities) = fed \div EARSHOT_FRAME
    /\ Len(vad.leftovers) = fed % EARSHOT_FRAME
    /\ Len(vad.leftovers) < EARSHOT_FRAME

\* a ring fed 657 samples across two chunk boundaries, by calls that found
\* leftovers, the last call being an empty one
C22_FedAcrossChunks ==
    /\ call.op = "consume" /\ call.samples = 0
    /\ fed = 100 + 257 + 300
    /\ Len(vad.probabilities) = 2
    /\ Len(vad.leftovers) = 145

\* C23: from any state of the ring, consuming A ++ B in one call leaves the
\* same probabilities and the same leftovers (and the same detector) as
\* consuming A and then B.
C23_ConsumeConcatenation ==
    \A a, b \in VadCallLengths :
        RingConsume(vad, SamplesFrom(fed, a) \o SamplesFrom(fed + a, b))
            = RingConsume(RingConsume(vad, SamplesFrom(fed, a)), SamplesFrom(fed + a, b))

\* a ring with probabilities and leftovers, for which some A ends inside a
\* chunk that B completes
C23_SplitInsideChunk ==
    /\ call.op = "consume"
    /\ vad.probabilities # << >>
    /\ vad.leftovers # << >>
    /\ \E a, b \in VadCallLengths :
         /\ a > 0 /\ Len(vad.leftovers) + a < EARSHOT_FRAME
         /\ Len(vad.leftovers) + a + b > EARSHOT_FRAME
         /\ RingConsume(RingConsume(vad, SamplesFrom(fed, a)), SamplesFrom(fed + a, b))
                # RingConsume(vad, SamplesFrom(fed, a))

\* C24: advance_cs changes, samples leave the front of the buffer and
\* prompt_tokens change only in the step that reads a client Advance: a main
\* pass, a re-pass and an appended frame leave them as they are, and the
\* re-pass (transcribe_from) leaves the whole session as it is.
C24_OnlyAdvanceMovesOrigin ==
    [][/\ (\/ session'.advance_cs # session.advance_cs
           \/ session'.accumulated_audio.lo # session.accumulated_audio.lo
           \/ session'.prompt_tokens # session.prompt_tokens)
          => (Draining /\ clientLog' = Append(clientLog, "Advance"))
       /\ pc = "repass" => session' = session]_vars

\* an Advance moved the origin, and after it a frame was appended, a main pass
\* emitted and its re-pass sent an AdvanceSuggestion
C24_PassesAfterAdvance ==
    /\ session.advance_cs > 0
    /\ session.prompt_tokens # << >>
    /\ \E i \in DOMAIN clientLog :
         /\ clientLog[i] = "Advance"
         /\ \E j \in (i + 1)..Len(clientLog) : clientLog[j] = "Binary"
    /\ Len(sent) >= 2
    /\ IsTranscription(Len(sent) - 1)
    /\ sent[Len(sent) - 1].advance_cs = session.advance_cs
    /\ IsSuggestion(Len(sent))

\* handle_connection sent its last frame: the Close after the loop, or the
\* Error and Close of bail!
SessionEnded == pc \in {"closed", "bailed"}

\* a send failed and handle_connection returned its error
SendFailed == pc = "aborted"

\* C25: once EndOfStream was read the loop does not wait in peek again, and,
\* unless a send fails, the server comes to send the frame that ends the
\* session (Close, after an Error when the end is a fatal error) whether or not
\* the client sends anything more.
C25_EndOfStreamLeadsToClose ==
    /\ [](finalized => pc \notin {"peek", "peek_np"})
    /\ finalized ~> (SessionEnded \/ SendFailed)

\* the same, with a task that panicked counted as ended
C25_EndsOrPanics ==
    /\ [](finalized => pc \notin {"peek", "peek_np"})
    /\ finalized ~> (SessionEnded \/ SendFailed \/ pc = "panicked")

\* a step that is a call transcribe(false) in which the engine does not fail
PreviewPass ==
    call'.op = "transcribe" /\ ~call'.is_final /\ call'.result # "err"

\* the buffer holds three frames, and an advance or new audio since the last pass
PassDue(s) ==
    /\ BufLen(s) >= MIN_FRAMES * FRAME_SIZE_SAMPLES
    /\ \/ s.advanced_since
       \/ s.advance_cs + (BufLen(s) * 100) \div SAMPLE_RATE # s.transcribed_up_to_cs

\* C26: with an engine that does not fail, transcribe(false) returns a
\* Transcription exactly when the buffer holds at least 3 frames and
\* advanced_since is set or advance_cs + buffer_len * 100 / 16000 differs from
\* transcribed_up_to_cs; when it does, transcribed_up_to_cs becomes that end
\* and advanced_since false, and when it does not, the session is unchanged.
\* So a preview pass right after another pass returns nothing, and a preview
\* pass right after an effective advance that left 3 frames returns a
\* Transcription.
C26_PreviewPassWhenDue ==
    [][PreviewPass =>
         /\ call'.result = "some" <=> PassDue(session)
         /\ call'.result = "some" =>
                session' = [session EXCEPT
                               !.transcribed_up_to_cs =
                                   session.advance_cs
                                       + (BufLen(session) * 100) \div SAMPLE_RATE,
                               !.advanced_since = FALSE]
         /\ call'.result = "none" => session' = session
         /\ (call.op = "transcribe" /\ call.result = "some")
                => call'.result = "none"
         /\ (/\ call.op = "advance" /\ call.result = "ok"
             /\ session.advanced_since
             /\ BufLen(session) >= MIN_FRAMES * FRAME_SIZE_SAMPLES)
                => call'.result = "some"]_vars

\* a preview pass over a buffer whose end the last pass had reached returned a
\* Transcription, because of an advance in between
C26_PassAfterAdvanceAlone ==
    /\ call.op = "transcribe" /\ ~call.is_final /\ call.result = "some"
    /\ call.msg.advance_cs > 0
    /\ session.accumulated_audio.hi = MaxFrames * FRAME_SIZE_SAMPLES
    /\ session.accumulated_audio.lo > 0
    /\ ~session.advanced_since
    /\ session.transcribed_up_to_cs = CurrentEndCs(session)

\* max(384, 64 * ceil(floor(L * 1500 / 480000) / 64)) in the integers;
\* floor(L * 1500 / 480000) is floor(L / 320)
ExpectedAudioCtx(L) == Max(384, 64 * ((L \div 320 + 63) \div 64))

\* C27: with dynamic_audio_ctx, for every length L in samples of the audio a
\* pass of the session gives the engine, the pass sets
\* audio_ctx = max(384, 64 * ceil(floor(L * 1500 / 480000) / 64)).
C27_AudioCtx ==
    call.op \in {"transcribe", "transcribe_from"} =>
        /\ call.result # "panic"
        /\ call.audio_ctx = ExpectedAudioCtx(call.samples)

\* the same while L * 1500 is below 2^31
C27_AudioCtxUpTo89Seconds ==
    (call.op \in {"transcribe", "transcribe_from"} /\ call.samples <= 1431655) =>
        /\ call.result # "panic"
        /\ call.audio_ctx = ExpectedAudioCtx(call.samples)

\* C28: whenever the dispatch loop calls transcribe_from(from_cs), after the
\* re-drain and whatever that read, from_cs >= session.advance_cs: the offset
\* (from_cs - advance_cs) * 160 is not negative.
C28_RepassFromInsideBuffer ==
    pc = "repass" => pending.locals.retranscribe_from_cs >= session.advance_cs

\* the same for a re-pass whose re-drain read no Advance
C28_RepassFromInsideBufferUnlessAdvanced ==
    (pc = "repass" /\ pending.locals.tx_advance_cs = session.advance_cs)
        => pending.locals.retranscribe_from_cs >= session.advance_cs

\* the loop waits in peek().await of line 398 and no inbound frame is buffered
SuspendedIdle == pc = "peek" /\ inbox = 0 /\ ~no_preview

\* three frames in the buffer, and audio past the last main pass or an advance
\* since it
WorkLeft(s) ==
    /\ BufLen(s) >= MIN_FRAMES * FRAME_SIZE_SAMPLES
    /\ \/ s.advance_cs + BufLen(s) \div CS_SAMPLES > s.transcribed_up_to_cs
       \/ s.advanced_since

\* C29: with no_preview = false the dispatch loop never waits in peek().await
\* with no inbound frame buffered while the buffer holds at least 3 frames and
\* has audio no main pass covered or advanced_since is set; frames and advances
\* read by the two-stroke re-drain included.
C29_NoIdleWithWorkLeft ==
    SuspendedIdle => ~WorkLeft(session)

\* the same for the waits that do not follow a two-stroke re-drain
C29_NoIdleWithWorkLeftAfterMainDrain ==
    (SuspendedIdle /\ ~two_stroke) => ~WorkLeft(session)

====
